---- MODULE Spec2Model ----
(***************************************************************************)
(* Client side of the threshold multisig: the borsh schema (schema.ts),    *)
(* the MultiSig facade (multisig.ts: key derivation, account space,        *)
(* account readers, init / propose / approve instruction builders), the    *)
(* orchestrators proposeMulti and createMultiApprove, and Loader.deploy.   *)
(*                                                                         *)
(* Representation.  A buffer is a sequence of byte cells.  The cell <<b>>,  *)
(* b in 0..255, is the concrete byte b; a cell <<name, buffer>> is a byte  *)
(* of a digest, written as a term over the hashed buffer.  SHA-256 and     *)
(* PublicKey.findProgramAddress are library code and are modelled as       *)
(* collision free: their 32 output cells determine their input.            *)
(* Everything the repository itself computes (schema encoding and          *)
(* decoding, word packing, account lists, guards) is computed cell by cell.*)
(***************************************************************************)
EXTENDS Integers, Sequences, FiniteSets, TLC

VARIABLES input, last

vars == <<input, last>>

-----------------------------------------------------------------------------
(* Bounds of the explored inputs *)

MaxMembers == 5
MaxInitMembers == 2
MaxAccounts == 2
MaxData == 1
MaxInstructions == 2
MaxProposals == 2
MaxChunks == 2
MaxBytes == 5

-----------------------------------------------------------------------------
(* Bytes, buffers and public keys *)

KeyLen == 32

Byte(b) == <<b>>

IsConcrete(c) == Len(c) = 1

Zeros(n) == [i \in 1..n |-> Byte(0)]

\* A 32-byte public key whose first byte is n and whose other bytes are 0.
RawKey(n) == [i \in 1..KeyLen |-> IF i = 1 THEN Byte(n) ELSE Byte(0)]

\* SystemProgram.programId is the all-zero key (base58 "111...1").
SystemProgramId == Zeros(KeyLen)

\* The multisig program id handed to the MultiSig constructor.
programId == RawKey(9)

RECURSIVE ConcatMap(_, _)
\* F(xs[1]) \o F(xs[2]) \o ... in order (the sequence is split in halves to
\* keep the evaluation shallow)
ConcatMap(F(_), xs) ==
  IF xs = <<>> THEN <<>>
  ELSE IF Len(xs) = 1 THEN F(xs[1])
  ELSE LET h == Len(xs) \div 2
       IN ConcatMap(F, SubSeq(xs, 1, h)) \o ConcatMap(F, SubSeq(xs, h + 1, Len(xs)))

-----------------------------------------------------------------------------
(* byteArrayToWordArray: 32-bit words as four byte lanes, lane 1 the most  *)
(* significant.  x << s takes s modulo 32; for a byte x and s a multiple   *)
(* of 8 the result has x in lane 4 - s/8 and zero elsewhere.               *)

RECURSIVE BitOr(_, _)
BitOr(a, b) ==
  IF a = 0 THEN b
  ELSE IF b = 0 THEN a
  ELSE (IF a % 2 = 1 \/ b % 2 = 1 THEN 1 ELSE 0) + 2 * BitOr(a \div 2, b \div 2)

OrCell(a, b) ==
  IF a = Byte(0) THEN b
  ELSE IF b = Byte(0) THEN a
  ELSE IF IsConcrete(a) /\ IsConcrete(b) THEN Byte(BitOr(a[1], b[1]))
  ELSE <<"or", <<a, b>>>>

ZeroWord == <<Byte(0), Byte(0), Byte(0), Byte(0)>>

\* a shift count that is not reduced modulo 32: beyond the word, the byte is lost
ShiftAmount_Unreduced(i) == 24 - 8 * i

ShiftAmount(i) == (24 - 8 * i) % 32

ShiftLeft(cell, s) ==
  LET lane == 4 - (s \div 8)
  IN <<IF lane = 1 THEN cell ELSE Byte(0), IF lane = 2 THEN cell ELSE Byte(0),
       IF lane = 3 THEN cell ELSE Byte(0), IF lane = 4 THEN cell ELSE Byte(0)>>

OrWord(w, v) ==
  <<OrCell(w[1], v[1]), OrCell(w[2], v[2]), OrCell(w[3], v[3]), OrCell(w[4], v[4])>>

\* the index (i / 4) | 0 of the word that byte i is or-ed into
WordIndex(i) == i \div 4

\* ba[i] << (24 - 8 * i) if byte i exists and is or-ed into wa[k], else 0
Shifted(ba, i, k) ==
  IF i < Len(ba) /\ WordIndex(i) = k
  THEN ShiftLeft(ba[i + 1], ShiftAmount(i))
  ELSE ZeroWord

\* wa[k] after the loop: absent (0) at first, then or-ed with the bytes i that
\* have (i / 4) | 0 = k, in index order; only 4k..4k+3 can have that index
WordAt(ba, k) ==
  OrWord(OrWord(OrWord(OrWord(ZeroWord,
                              Shifted(ba, 4 * k, k)),
                       Shifted(ba, 4 * k + 1, k)),
                Shifted(ba, 4 * k + 2, k)),
         Shifted(ba, 4 * k + 3, k))

\* for (let i = 0; i < ba.length; i++) wa[(i / 4) | 0] |= ba[i] << (24 - 8 * i)
\* CryptoJS.lib.WordArray.create(wa, ba.length)
byteArrayToWordArray(ba) ==
  LET n == IF Len(ba) = 0 THEN 0 ELSE WordIndex(Len(ba) - 1) + 1
  IN [words |-> [k \in 1..n |-> WordAt(ba, k - 1)], sigBytes |-> Len(ba)]

WordLanes(w) == w

WordBytes(ws) == ConcatMap(WordLanes, ws)

-----------------------------------------------------------------------------
(* Library digests *)

\* CryptoJS.SHA256(wordArray).toString() read back with Buffer.from(hex):
\* the 32 digest bytes of the first sigBytes bytes held by the words.
SHA256(wa) ==
  LET msg == SubSeq(WordBytes(wa.words), 1, wa.sigBytes)
  IN [j \in 1..KeyLen |->
        IF j = 1 THEN <<"sha256", msg>> ELSE <<"sha256 byte", <<Byte(j)>>>>]

\* PublicKey.findProgramAddress(seeds, programId): the seeds are concatenated,
\* then hashed with the program id.
findProgramAddress(seeds, pid) ==
  [j \in 1..KeyLen |->
     IF j = 1 THEN <<"pda", seeds \o pid>> ELSE <<"pda byte", <<Byte(j)>>>>]

PDA_TAG == [group |-> <<Byte(0)>>, proposal |-> <<Byte(1)>>, protected |-> <<Byte(2)>>]

ACCOUNT_TYPE_TAG == [group |-> 0, proposal |-> 1]

-----------------------------------------------------------------------------
(* borsh writer, driven by the schema of schema.ts *)

RECURSIVE LE(_, _)
\* n little-endian bytes of v
LE(v, n) == IF n = 0 THEN <<>> ELSE <<Byte(v % 256)>> \o LE(v \div 256, n - 1)

writeU8(v) == LE(v, 1)

RECURSIVE Compact(_)
\* the bytes of v without leading zero bytes, at least one
Compact(v) == IF v < 256 THEN <<Byte(v)>> ELSE <<Byte(v % 256)>> \o Compact(v \div 256)

\* a variable-length u32
writeU32_Compact(v) == Compact(v)

writeU32(v) == LE(v, 4)

writeU64(v) == LE(v, 8)

\* ['publicKey', [32]]: the 32 bytes verbatim
writeFixedArray(k) == k

\* boolMapper.encode
boolToInt(t) == IF t THEN 1 ELSE 0

\* boolMapper.decode
intToBool(i) == i # 0

\* [Type]: 4-byte element count, then every element
writeArray(Enc(_), xs) == writeU32(Len(xs)) \o ConcatMap(Enc, xs)

serialize_GroupMember(m) == writeFixedArray(m.publicKey) \o writeU32(m.weight)

serialize_GroupData(g) ==
  writeArray(serialize_GroupMember, g.members) \o writeU32(g.threshold)

serialize_ApproveInstruction(a) == <<>>

serialize_ProposedAccountMeta(a) ==
  writeFixedArray(a.pubkey)
    \o writeU8(boolToInt(a.is_signer))
    \o writeU8(boolToInt(a.is_writable))

serialize_ProposedInstruction(ins) ==
  writeFixedArray(ins.program_id)
    \o writeArray(serialize_ProposedAccountMeta, ins.accounts)
    \o writeArray(writeU8, ins.data)

serialize_ProposalState(st) == writeU64(st.members) \o writeU32(st.current_weight)

serialize_ProposalConfig(c) ==
  writeFixedArray(c.group) \o serialize_ProposedInstruction(c.instruction)

serialize_ProposalData(d) ==
  serialize_ProposalConfig(d.config) \o serialize_ProposalState(d.state)

serialize_ProtectedAccountConfig(c) ==
  writeU64(c.lamports) \o writeU64(c.space) \o writeFixedArray(c.owner)

\* kind: 'option'; null is <<>>, a present value v is <<v>>
writeOption(Enc(_), o) ==
  IF o = <<>> THEN writeU8(0) ELSE writeU8(1) \o Enc(o[1])

serialize_InitInstruction(d) ==
  serialize_GroupData(d.group_data)
    \o writeU64(d.lamports)
    \o writeOption(serialize_ProtectedAccountConfig, d.protected_account_config)

serialize_ProposeInstruction(d) ==
  serialize_ProposedInstruction(d.instruction) \o writeU64(d.lamports)

\* new InstructionData(instr): the variant name selected by the class
InstructionData(kind, instr) == [variant |-> kind, body |-> instr]

\* kind: 'enum': the index of the variant in `values` as one byte, then the body
serialize_InstructionData(e) ==
  IF e.variant = "init" THEN writeU8(0) \o serialize_InitInstruction(e.body)
  ELSE IF e.variant = "propose" THEN writeU8(1) \o serialize_ProposeInstruction(e.body)
  ELSE writeU8(2) \o serialize_ApproveInstruction(e.body)

-----------------------------------------------------------------------------
(* MultiSig: key derivation and account space *)

\* the members in the order of the first byte of their key, then their weight
SortedMembers(members) ==
  CHOOSE s \in [1..Len(members) -> {members[i] : i \in 1..Len(members)}] :
    /\ \E f \in [1..Len(members) -> 1..Len(members)] :
         /\ \A i, j \in 1..Len(members) : i # j => f[i] # f[j]
         /\ \A i \in 1..Len(members) : s[i] = members[f[i]]
    /\ \A i, j \in 1..Len(members) :
         i < j => \/ s[i].publicKey[1][1] < s[j].publicKey[1][1]
                  \/ /\ s[i].publicKey[1][1] = s[j].publicKey[1][1]
                     /\ s[i].weight <= s[j].weight

\* groupAccountKey hashing the members in sorted order
groupAccountKey_Sorted(groupData) ==
  LET serializedGroup ==
        serialize_GroupData([members |-> SortedMembers(groupData.members),
                             threshold |-> groupData.threshold])
      hash == SHA256(byteArrayToWordArray(serializedGroup))
  IN findProgramAddress(PDA_TAG.group \o hash, programId)

groupAccountKey(groupData) ==
  LET serializedGroup == serialize_GroupData(groupData)
      hash == SHA256(byteArrayToWordArray(serializedGroup))
  IN findProgramAddress(PDA_TAG.group \o hash, programId)

protectedAccountKey(group) ==
  findProgramAddress(PDA_TAG.protected \o group, programId)

proposalAccountKey(proposalConfig) ==
  LET serializedProposedConfig == serialize_ProposalConfig(proposalConfig)
      hash == SHA256(byteArrayToWordArray(serializedProposedConfig))
  IN findProgramAddress(PDA_TAG.proposal \o hash, programId)

groupAccountSpace(groupData) == Len(serialize_GroupData(groupData)) + 1

\* proposalAccountSpace adding the tag byte only, as groupAccountSpace does
proposalAccountSpace_TagOnly(config) ==
  LET mockState == [members |-> 1, current_weight |-> 1]
  IN Len(serialize_ProposalData([config |-> config, state |-> mockState])) + 1

proposalAccountSpace(config) ==
  LET mockState == [members |-> 1, current_weight |-> 1]
  IN Len(serialize_ProposalData([config |-> config, state |-> mockState])) + 4 + 1

-----------------------------------------------------------------------------
(* MultiSig: instruction builders *)

AccountMeta(k, s, w) == [pubkey |-> k, isSigner |-> s, isWritable |-> w]

\* init deriving the group address from the whole InitInstruction
init_KeyFromInstruction(data, payerAccountKey) ==
  LET instructionBuffer == serialize_InstructionData(InstructionData("init", data))
      hash == SHA256(byteArrayToWordArray(serialize_InitInstruction(data)))
      groupKey == findProgramAddress(PDA_TAG.group \o hash, programId)
      protectedKey == protectedAccountKey(groupKey)
  IN [keys |-> <<AccountMeta(payerAccountKey, TRUE, TRUE),
                 AccountMeta(groupKey, FALSE, TRUE),
                 AccountMeta(SystemProgramId, FALSE, FALSE),
                 AccountMeta(protectedKey, FALSE, TRUE)>>,
      programId |-> programId,
      data |-> instructionBuffer]

init(data, payerAccountKey) ==
  LET instructionBuffer == serialize_InstructionData(InstructionData("init", data))
      groupKey == groupAccountKey(data.group_data)
      protectedKey == protectedAccountKey(groupKey)
  IN [keys |-> <<AccountMeta(payerAccountKey, TRUE, TRUE),
                 AccountMeta(groupKey, FALSE, TRUE),
                 AccountMeta(SystemProgramId, FALSE, FALSE),
                 AccountMeta(protectedKey, FALSE, TRUE)>>,
      programId |-> programId,
      data |-> instructionBuffer]

\* propose without the signer rewrite
propose_KeepSigner(data, groupKey, signerAccountKey) ==
  LET proposalConfig == [group |-> groupKey, instruction |-> data.instruction]
      proposalKey == proposalAccountKey(proposalConfig)
      buffer == serialize_InstructionData(InstructionData("propose", data))
  IN [keys |-> <<AccountMeta(signerAccountKey, TRUE, TRUE),
                 AccountMeta(groupKey, FALSE, TRUE),
                 AccountMeta(proposalKey, FALSE, TRUE),
                 AccountMeta(SystemProgramId, FALSE, FALSE),
                 AccountMeta(data.instruction.program_id, FALSE, FALSE)>>
                \o [i \in 1..Len(data.instruction.accounts) |->
                      LET account == data.instruction.accounts[i]
                      IN AccountMeta(account.pubkey, account.is_signer,
                                     account.is_writable)],
      programId |-> programId,
      data |-> buffer]

\* propose with the system program placed after the target program
propose_SystemLast(data, groupKey, signerAccountKey) ==
  LET proposalConfig == [group |-> groupKey, instruction |-> data.instruction]
      proposalKey == proposalAccountKey(proposalConfig)
      protectedKey == protectedAccountKey(groupKey)
      buffer == serialize_InstructionData(InstructionData("propose", data))
  IN [keys |-> <<AccountMeta(signerAccountKey, TRUE, TRUE),
                 AccountMeta(groupKey, FALSE, TRUE),
                 AccountMeta(proposalKey, FALSE, TRUE),
                 AccountMeta(data.instruction.program_id, FALSE, FALSE),
                 AccountMeta(SystemProgramId, FALSE, FALSE)>>
                \o [i \in 1..Len(data.instruction.accounts) |->
                      LET account == data.instruction.accounts[i]
                      IN AccountMeta(account.pubkey,
                                     IF protectedKey = account.pubkey
                                     THEN FALSE
                                     ELSE account.is_signer,
                                     account.is_writable)],
      programId |-> programId,
      data |-> buffer]

\* propose deriving the proposal address from the whole ProposeInstruction
propose_KeyFromData(data, groupKey, signerAccountKey) ==
  LET hash == SHA256(byteArrayToWordArray(
                writeFixedArray(groupKey) \o serialize_ProposeInstruction(data)))
      proposalKey == findProgramAddress(PDA_TAG.proposal \o hash, programId)
      protectedKey == protectedAccountKey(groupKey)
      buffer == serialize_InstructionData(InstructionData("propose", data))
  IN [keys |-> <<AccountMeta(signerAccountKey, TRUE, TRUE),
                 AccountMeta(groupKey, FALSE, TRUE),
                 AccountMeta(proposalKey, FALSE, TRUE),
                 AccountMeta(SystemProgramId, FALSE, FALSE),
                 AccountMeta(data.instruction.program_id, FALSE, FALSE)>>
                \o [i \in 1..Len(data.instruction.accounts) |->
                      LET account == data.instruction.accounts[i]
                      IN AccountMeta(account.pubkey,
                                     IF protectedKey = account.pubkey
                                     THEN FALSE
                                     ELSE account.is_signer,
                                     account.is_writable)],
      programId |-> programId,
      data |-> buffer]

\* propose clearing the signer flag in the proposed instruction itself, before
\* the proposal address is derived and the payload is serialized
propose_RewriteInPlace(data, groupKey, signerAccountKey) ==
  LET protectedKey == protectedAccountKey(groupKey)
      rewritten ==
        [data EXCEPT !.instruction.accounts =
           [i \in 1..Len(@) |->
              [@[i] EXCEPT !.is_signer =
                 IF protectedKey = data.instruction.accounts[i].pubkey
                 THEN FALSE ELSE @]]]
      proposalConfig == [group |-> groupKey, instruction |-> rewritten.instruction]
      proposalKey == proposalAccountKey(proposalConfig)
      buffer == serialize_InstructionData(InstructionData("propose", rewritten))
  IN [keys |-> <<AccountMeta(signerAccountKey, TRUE, TRUE),
                 AccountMeta(groupKey, FALSE, TRUE),
                 AccountMeta(proposalKey, FALSE, TRUE),
                 AccountMeta(SystemProgramId, FALSE, FALSE),
                 AccountMeta(data.instruction.program_id, FALSE, FALSE)>>
                \o [i \in 1..Len(rewritten.instruction.accounts) |->
                      LET account == rewritten.instruction.accounts[i]
                      IN AccountMeta(account.pubkey, account.is_signer,
                                     account.is_writable)],
      programId |-> programId,
      data |-> buffer]

propose(data, groupKey, signerAccountKey) ==
  LET proposalConfig == [group |-> groupKey, instruction |-> data.instruction]
      proposalKey == proposalAccountKey(proposalConfig)
      protectedKey == protectedAccountKey(groupKey)
      buffer == serialize_InstructionData(InstructionData("propose", data))
  IN [keys |-> <<AccountMeta(signerAccountKey, TRUE, TRUE),
                 AccountMeta(groupKey, FALSE, TRUE),
                 AccountMeta(proposalKey, FALSE, TRUE),
                 AccountMeta(SystemProgramId, FALSE, FALSE),
                 AccountMeta(data.instruction.program_id, FALSE, FALSE)>>
                \o [i \in 1..Len(data.instruction.accounts) |->
                      LET account == data.instruction.accounts[i]
                      IN AccountMeta(account.pubkey,
                                     IF protectedKey = account.pubkey
                                     THEN FALSE
                                     ELSE account.is_signer,
                                     account.is_writable)],
      programId |-> programId,
      data |-> buffer]

\* approve comparing the accounts with the group address, not the protected one
approve_RewriteGroup(proposalKey, proposalConfig, signerAccountKey) ==
  LET groupKey == proposalConfig.group
      buffer == serialize_InstructionData(InstructionData("approve", <<>>))
  IN [keys |-> <<AccountMeta(signerAccountKey, TRUE, TRUE),
                 AccountMeta(groupKey, FALSE, TRUE),
                 AccountMeta(proposalKey, FALSE, TRUE),
                 AccountMeta(proposalConfig.instruction.program_id, FALSE, FALSE)>>
                \o [i \in 1..Len(proposalConfig.instruction.accounts) |->
                      LET account == proposalConfig.instruction.accounts[i]
                      IN AccountMeta(account.pubkey,
                                     IF groupKey = account.pubkey
                                     THEN FALSE
                                     ELSE account.is_signer,
                                     account.is_writable)],
      programId |-> programId,
      data |-> buffer]

\* approve with propose's five leading accounts and a payload carrying the proposal
approve_LikePropose(proposalKey, proposalConfig, signerAccountKey) ==
  LET groupKey == proposalConfig.group
      protectedKey == protectedAccountKey(groupKey)
      buffer == serialize_InstructionData(InstructionData("approve", <<>>))
                  \o writeFixedArray(proposalKey)
  IN [keys |-> <<AccountMeta(signerAccountKey, TRUE, TRUE),
                 AccountMeta(groupKey, FALSE, TRUE),
                 AccountMeta(proposalKey, FALSE, TRUE),
                 AccountMeta(SystemProgramId, FALSE, FALSE),
                 AccountMeta(proposalConfig.instruction.program_id, FALSE, FALSE)>>
                \o [i \in 1..Len(proposalConfig.instruction.accounts) |->
                      LET account == proposalConfig.instruction.accounts[i]
                      IN AccountMeta(account.pubkey,
                                     IF protectedKey = account.pubkey
                                     THEN FALSE
                                     ELSE account.is_signer,
                                     account.is_writable)],
      programId |-> programId,
      data |-> buffer]

approve(proposalKey, proposalConfig, signerAccountKey) ==
  LET groupKey == proposalConfig.group
      protectedKey == protectedAccountKey(groupKey)
      buffer == serialize_InstructionData(InstructionData("approve", <<>>))
  IN [keys |-> <<AccountMeta(signerAccountKey, TRUE, TRUE),
                 AccountMeta(groupKey, FALSE, TRUE),
                 AccountMeta(proposalKey, FALSE, TRUE),
                 AccountMeta(proposalConfig.instruction.program_id, FALSE, FALSE)>>
                \o [i \in 1..Len(proposalConfig.instruction.accounts) |->
                      LET account == proposalConfig.instruction.accounts[i]
                      IN AccountMeta(account.pubkey,
                                     IF protectedKey = account.pubkey
                                     THEN FALSE
                                     ELSE account.is_signer,
                                     account.is_writable)],
      programId |-> programId,
      data |-> buffer]

-----------------------------------------------------------------------------
(* borsh reader.  Every read returns [ok, val, off]: whether it succeeded, *)
(* the value read and the offset after it.  A read past the end of the     *)
(* buffer throws (ok = FALSE).                                             *)

Thrown(off) == [ok |-> FALSE, val |-> <<>>, off |-> off]

Read(val, off) == [ok |-> TRUE, val |-> val, off |-> off]

\* the value of a concrete byte; a digest byte has no known value and no
\* integer is ever read from one
ByteValue(c) == IF IsConcrete(c) THEN c[1] ELSE CHOOSE v \in {} : TRUE

RECURSIVE FromLE(_)
\* the unsigned integer held by little-endian bytes
FromLE(cells) ==
  IF cells = <<>> THEN 0 ELSE ByteValue(Head(cells)) + 256 * FromLE(Tail(cells))

readUInt(buf, off, n) ==
  IF off + n > Len(buf) THEN Thrown(off)
  ELSE Read(FromLE(SubSeq(buf, off + 1, off + n)), off + n)

readU8(buf, off) == readUInt(buf, off, 1)

readU32(buf, off) == readUInt(buf, off, 4)

readU64(buf, off) == readUInt(buf, off, 8)

readFixedArray(buf, off, len) ==
  IF off + len > Len(buf) THEN Thrown(off)
  ELSE Read(SubSeq(buf, off + 1, off + len), off + len)

RECURSIVE readElements(_, _, _, _, _)
\* the loop of readArray: n more elements, acc read so far
readElements(Dec(_, _), buf, off, n, acc) ==
  IF n = 0 THEN Read(acc, off)
  ELSE LET e == Dec(buf, off)
       IN IF ~e.ok THEN Thrown(off)
          ELSE readElements(Dec, buf, e.off, n - 1, Append(acc, e.val))

readArray(Dec(_, _), buf, off) ==
  LET len == readU32(buf, off)
  IN IF ~len.ok THEN Thrown(off)
     ELSE readElements(Dec, buf, len.off, len.val, <<>>)

\* new GroupMember(record): the record branch of the constructor
deserialize_GroupMember(buf, off) ==
  LET k == readFixedArray(buf, off, KeyLen)
      w == readU32(buf, k.off)
  IN IF ~k.ok \/ ~w.ok THEN Thrown(off)
     ELSE Read([publicKey |-> k.val, weight |-> w.val], w.off)

deserialize_GroupData(buf, off) ==
  LET ms == readArray(deserialize_GroupMember, buf, off)
      t == readU32(buf, ms.off)
  IN IF ~ms.ok \/ ~t.ok THEN Thrown(off)
     ELSE Read([members |-> ms.val, threshold |-> t.val], t.off)

\* new ProposedAccountMeta(record): flags decoded by boolMapper, then == 0 ? false : true
deserialize_ProposedAccountMeta(buf, off) ==
  LET k == readFixedArray(buf, off, KeyLen)
      s == readU8(buf, k.off)
      w == readU8(buf, s.off)
  IN IF ~k.ok \/ ~s.ok \/ ~w.ok THEN Thrown(off)
     ELSE Read([pubkey |-> k.val,
                is_signer |-> IF intToBool(s.val) = FALSE THEN FALSE ELSE TRUE,
                is_writable |-> IF intToBool(w.val) = FALSE THEN FALSE ELSE TRUE],
               w.off)

deserialize_ProposedInstruction(buf, off) ==
  LET p == readFixedArray(buf, off, KeyLen)
      as == readArray(deserialize_ProposedAccountMeta, buf, p.off)
      d == readArray(readU8, buf, as.off)
  IN IF ~p.ok \/ ~as.ok \/ ~d.ok THEN Thrown(off)
     ELSE Read([program_id |-> p.val, accounts |-> as.val, data |-> d.val], d.off)

deserialize_ProposalState(buf, off) ==
  LET m == readU64(buf, off)
      w == readU32(buf, m.off)
  IN IF ~m.ok \/ ~w.ok THEN Thrown(off)
     ELSE Read([members |-> m.val, current_weight |-> w.val], w.off)

deserialize_ProposalConfig(buf, off) ==
  LET g == readFixedArray(buf, off, KeyLen)
      i == deserialize_ProposedInstruction(buf, g.off)
  IN IF ~g.ok \/ ~i.ok THEN Thrown(off)
     ELSE Read([group |-> g.val, instruction |-> i.val], i.off)

deserialize_ProposalData(buf, off) ==
  LET c == deserialize_ProposalConfig(buf, off)
      st == deserialize_ProposalState(buf, c.off)
  IN IF ~c.ok \/ ~st.ok THEN Thrown(off)
     ELSE Read([config |-> c.val, state |-> st.val], st.off)

\* the value of a constructor parameter that was not passed
undefined == "undefined"

\* new ProtectedAccountConfig(lamports, space, owner): owner.toBuffer() throws
\* a TypeError when owner is undefined
ProtectedAccountConfig(lamports, space, owner) ==
  IF owner = undefined THEN [ok |-> FALSE, val |-> <<>>]
  ELSE [ok |-> TRUE, val |-> [lamports |-> lamports, space |-> space, owner |-> owner]]

\* new InitInstruction(group_data, lamports, protected_account_config)
InitInstruction(group_data, lamports, protected_account_config) ==
  [group_data |-> group_data, lamports |-> lamports,
   protected_account_config |-> protected_account_config]

\* new ProposeInstruction(instruction, lamports)
ProposeInstruction(instruction, lamports) ==
  [instruction |-> instruction, lamports |-> lamports]

\* the decoder builds the record of the fields read and calls
\* new ProtectedAccountConfig(record): the record is the first parameter
deserialize_ProtectedAccountConfig(buf, off) ==
  LET l == readU64(buf, off)
      s == readU64(buf, l.off)
      o == readFixedArray(buf, s.off, KeyLen)
      result == [lamports |-> l.val, space |-> s.val, owner |-> o.val]
      made == ProtectedAccountConfig(result, undefined, undefined)
  IN IF ~l.ok \/ ~s.ok \/ ~o.ok \/ ~made.ok THEN Thrown(off)
     ELSE Read(made.val, o.off)

\* kind: 'option': the flag byte, then the value when the flag is not 0
readOption_ProtectedAccountConfig(buf, off) ==
  LET flag == readU8(buf, off)
      v == deserialize_ProtectedAccountConfig(buf, flag.off)
  IN IF ~flag.ok THEN Thrown(off)
     ELSE IF flag.val = 0 THEN Read(undefined, flag.off)
     ELSE IF ~v.ok THEN Thrown(off)
     ELSE Read(v.val, v.off)

\* new InitInstruction(record)
deserialize_InitInstruction(buf, off) ==
  LET g == deserialize_GroupData(buf, off)
      l == readU64(buf, g.off)
      c == readOption_ProtectedAccountConfig(buf, l.off)
      result == [group_data |-> g.val, lamports |-> l.val,
                 protected_account_config |-> c.val]
  IN IF ~g.ok \/ ~l.ok \/ ~c.ok THEN Thrown(off)
     ELSE Read(InitInstruction(result, undefined, undefined), c.off)

\* new ProposeInstruction(record)
deserialize_ProposeInstruction(buf, off) ==
  LET i == deserialize_ProposedInstruction(buf, off)
      l == readU64(buf, i.off)
      result == [instruction |-> i.val, lamports |-> l.val]
  IN IF ~i.ok \/ ~l.ok THEN Thrown(off)
     ELSE Read(ProposeInstruction(result, undefined), l.off)

\* deserialize(schema, Type, buffer): bytes left over after the value throw
deserialize(Dec(_, _), buf) ==
  LET r == Dec(buf, 0)
  IN IF r.ok /\ r.off < Len(buf) THEN Thrown(r.off) ELSE r

-----------------------------------------------------------------------------
(* MultiSig: account readers *)

ErrOwner == "error: invalid account owner"
ErrZero == "data is zero (proposal may be complete)"
ErrEmpty == "account data is empty"
ErrType == "invalid account type"
ErrDecode == "BorshError"
NoError == ""

Throw(e) == [thrown |-> e, value |-> <<>>]

Return(v) == [thrown |-> NoError, value |-> v]

\* checkAccountType that only rejects empty data
checkAccountType_LengthOnly(data, expected) ==
  IF Len(data) = 0 THEN ErrEmpty ELSE NoError

\* "" when the check passes, else the string it throws
checkAccountType(data, expected) ==
  IF Len(data) = 0 THEN ErrEmpty
  ELSE IF data[1] # Byte(expected) THEN ErrType
  ELSE NoError

anyNonZero(buffer) == \E i \in 1..Len(buffer) : buffer[i] # Byte(0)

\* data.slice(1)
Slice1(data) == SubSeq(data, 2, Len(data))

readGroupAccountData(info) ==
  IF info.owner # programId THEN Throw(ErrOwner)
  ELSE IF checkAccountType(info.data, ACCOUNT_TYPE_TAG.group) # NoError
    THEN Throw(checkAccountType(info.data, ACCOUNT_TYPE_TAG.group))
  ELSE LET r == deserialize(deserialize_GroupData, Slice1(info.data))
       IN IF r.ok THEN Return(r.val) ELSE Throw(ErrDecode)

\* readProposalAccountData checking the account type before the zero data
readProposalAccountData_TypeFirst(info) ==
  IF info.owner # programId THEN Throw(ErrOwner)
  ELSE IF checkAccountType(info.data, ACCOUNT_TYPE_TAG.proposal) # NoError
    THEN Throw(checkAccountType(info.data, ACCOUNT_TYPE_TAG.proposal))
  ELSE IF ~anyNonZero(info.data) THEN Throw(ErrZero)
  ELSE LET r == deserialize(deserialize_ProposalData, Slice1(info.data))
       IN IF r.ok THEN Return(r.val) ELSE Throw(ErrDecode)

\* readProposalAccountData checking the zero data before the owner
readProposalAccountData_ZeroFirst(info) ==
  IF ~anyNonZero(info.data) THEN Throw(ErrZero)
  ELSE IF info.owner # programId THEN Throw(ErrOwner)
  ELSE IF checkAccountType(info.data, ACCOUNT_TYPE_TAG.proposal) # NoError
    THEN Throw(checkAccountType(info.data, ACCOUNT_TYPE_TAG.proposal))
  ELSE LET r == deserialize(deserialize_ProposalData, Slice1(info.data))
       IN IF r.ok THEN Return(r.val) ELSE Throw(ErrDecode)

readProposalAccountData(info) ==
  IF info.owner # programId THEN Throw(ErrOwner)
  ELSE IF ~anyNonZero(info.data) THEN Throw(ErrZero)
  ELSE IF checkAccountType(info.data, ACCOUNT_TYPE_TAG.proposal) # NoError
    THEN Throw(checkAccountType(info.data, ACCOUNT_TYPE_TAG.proposal))
  ELSE LET r == deserialize(deserialize_ProposalData, Slice1(info.data))
       IN IF r.ok THEN Return(r.val) ELSE Throw(ErrDecode)

-----------------------------------------------------------------------------
(* Input domains *)

SeqsUpTo(S, n) == UNION {[1..k -> S] : k \in 0..n}

Idle == [op |-> "none"]

MemberKeys == {RawKey(10), RawKey(11)}

\* 0 is the zero-weight member, 300 needs two bytes
Weights == {0, 300}

Thresholds == {0, 2}

GroupMembers == [publicKey : MemberKeys, weight : Weights]

GroupDatas(n) == [members : SeqsUpTo(GroupMembers, n), threshold : Thresholds]

SampleGroupData ==
  [members |-> <<[publicKey |-> RawKey(10), weight |-> 1],
                 [publicKey |-> RawKey(11), weight |-> 1]>>,
   threshold |-> 2]

\* the group address supplied by the caller, as derived by init
Groups == {groupAccountKey(SampleGroupData)}

\* the protected account of the group and the protected account of another one
AccountKeys == {protectedAccountKey(g) : g \in Groups \cup {RawKey(1)}}

ProposedAccountMetas ==
  [pubkey : AccountKeys, is_signer : BOOLEAN, is_writable : BOOLEAN]

TargetPrograms == {RawKey(2)}

ProposedInstructions ==
  [program_id : TargetPrograms,
   accounts : SeqsUpTo(ProposedAccountMetas, MaxAccounts),
   data : SeqsUpTo({7}, MaxData)]

Lamports == {0, 300}

Signers == {RawKey(4), RawKey(5)}

ProtectedAccountConfigs ==
  {<<>>, <<[lamports |-> 300, space |-> 2, owner |-> RawKey(2)]>>}

-----------------------------------------------------------------------------
(* Instruction builders: one call of propose or approve on a group address *)
(* and a proposed instruction; the facade keeps no state between calls.    *)

InitIx ==
  /\ input \in [group : Groups, instruction : ProposedInstructions]
  /\ last = Idle

Propose ==
  /\ last = Idle
  /\ \E lamports \in Lamports, signer \in Signers :
    LET data == [instruction |-> input.instruction, lamports |-> lamports]
    IN /\ last' = [op |-> "propose", data |-> data, group |-> input.group,
                   signer |-> signer,
                   out |-> propose(data, input.group, signer)]
       /\ UNCHANGED input

Approve ==
  /\ last = Idle
  /\ LET config == [group |-> input.group, instruction |-> input.instruction]
     IN \E proposal \in {proposalAccountKey(config), RawKey(6)} :
       \E signer \in Signers :
         /\ last' = [op |-> "approve", proposal |-> proposal, config |-> config,
                     signer |-> signer,
                     out |-> approve(proposal, config, signer)]
         /\ UNCHANGED input

NextIx == Propose \/ Approve

SpecIx == InitIx /\ [][NextIx]_vars

-----------------------------------------------------------------------------
(* Properties of propose and approve *)

\* the group address and the proposed instruction of the recorded call
CallGroup == IF last.op = "propose" THEN last.group ELSE last.config.group

CallInstruction ==
  IF last.op = "propose" THEN last.data.instruction ELSE last.config.instruction

\* the number of accounts emitted before the proposed instruction's accounts
CallLead == IF last.op = "propose" THEN 5 ELSE 4

\* C1: in the instruction emitted by propose and by approve, every entry that
\* comes from the proposed instruction's accounts and whose address is the
\* protected account of the group is not a signer, whatever flag was supplied.
C1_SignerRewrite ==
  last.op \in {"propose", "approve"} =>
    \A i \in 1..Len(CallInstruction.accounts) :
      last.out.keys[CallLead + i].pubkey = protectedAccountKey(CallGroup)
        => last.out.keys[CallLead + i].isSigner = FALSE

\* an approve whose proposed instruction names the protected account as a signer
C1_Witness ==
  /\ last.op = "approve"
  /\ \E i \in 1..Len(last.config.instruction.accounts) :
       /\ last.config.instruction.accounts[i].pubkey
            = protectedAccountKey(last.config.group)
       /\ last.config.instruction.accounts[i].is_signer
       /\ last.out.keys[4 + i].isSigner = FALSE

\* C2: the accounts emitted by approve(P, {g, ins}, a) from the target program
\* on (0-based index 3) equal, element for element, the accounts emitted by
\* propose({ins, lamports}, g, p) from 0-based index 4 on, for every lamports
\* and every proposer other than the approver; the group entry is the same,
\* and when P is the proposal address of {g, ins} the proposal entry is the
\* same too.
C2_ApproveMatchesPropose ==
  last.op = "approve" =>
    \A lamports \in Lamports, p \in Signers \ {last.signer} :
      LET pk == propose([instruction |-> last.config.instruction,
                         lamports |-> lamports], last.config.group, p).keys
          ak == last.out.keys
      IN /\ SubSeq(ak, 4, Len(ak)) = SubSeq(pk, 5, Len(pk))
         /\ ak[2] = pk[2]
         /\ last.proposal = proposalAccountKey(last.config) => ak[3] = pk[3]

\* an approve of a two-account instruction, one entry rewritten and one kept
C2_Witness ==
  /\ last.op = "approve"
  /\ Len(last.config.instruction.accounts) = 2
  /\ last.config.instruction.accounts[1].is_signer
  /\ last.config.instruction.accounts[2].is_signer
  /\ last.out.keys[5].isSigner # last.out.keys[6].isSigner

\* C3: propose emits an instruction for the multisig program whose accounts
\* are the proposer (signer, writable), the group (writable), the proposal
\* address of {group, instruction} (writable), the system program (read-only),
\* the target program (read-only), then the proposed accounts in order with
\* address and writable flag unchanged and the signer flag unchanged unless
\* the address is the protected account.
C3_ProposeAccounts ==
  last.op = "propose" =>
    LET ins == last.data.instruction
        k == last.out.keys
    IN /\ last.out.programId = programId
       /\ Len(k) = 5 + Len(ins.accounts)
       /\ k[1] = [pubkey |-> last.signer, isSigner |-> TRUE, isWritable |-> TRUE]
       /\ k[2] = [pubkey |-> last.group, isSigner |-> FALSE, isWritable |-> TRUE]
       /\ k[3] = [pubkey |-> proposalAccountKey([group |-> last.group,
                                                 instruction |-> ins]),
                  isSigner |-> FALSE, isWritable |-> TRUE]
       /\ k[4] = [pubkey |-> SystemProgramId, isSigner |-> FALSE, isWritable |-> FALSE]
       /\ k[5] = [pubkey |-> ins.program_id, isSigner |-> FALSE, isWritable |-> FALSE]
       /\ \A i \in 1..Len(ins.accounts) :
            /\ k[5 + i].pubkey = ins.accounts[i].pubkey
            /\ k[5 + i].isWritable = ins.accounts[i].is_writable
            /\ ins.accounts[i].pubkey # protectedAccountKey(last.group)
                 => k[5 + i].isSigner = ins.accounts[i].is_signer

\* a propose of two accounts with different addresses, both supplied as signers
C3_Witness ==
  /\ last.op = "propose"
  /\ Len(last.data.instruction.accounts) = 2
  /\ last.data.instruction.accounts[1].pubkey # last.data.instruction.accounts[2].pubkey
  /\ last.data.instruction.accounts[1].is_signer
  /\ last.data.instruction.accounts[2].is_signer
  /\ last.data.instruction.accounts[1].is_writable
  /\ ~last.data.instruction.accounts[2].is_writable
  /\ Len(last.out.keys) = 7

\* the one-byte index of the 'approve' variant, followed by its empty body
ApprovePayload == <<Byte(2)>>

\* C4: approve emits the approver (signer, writable), the group of the config
\* (writable), the supplied proposal address (writable), the target program
\* (read-only), then the proposed instruction's accounts in order; its payload
\* is the Approve variant with an empty body, the same for every proposal,
\* config and approver.
C4_ApproveAccounts ==
  last.op = "approve" =>
    LET ins == last.config.instruction
        k == last.out.keys
    IN /\ Len(k) = 4 + Len(ins.accounts)
       /\ k[1] = [pubkey |-> last.signer, isSigner |-> TRUE, isWritable |-> TRUE]
       /\ k[2] = [pubkey |-> last.config.group, isSigner |-> FALSE, isWritable |-> TRUE]
       /\ k[3] = [pubkey |-> last.proposal, isSigner |-> FALSE, isWritable |-> TRUE]
       /\ k[4] = [pubkey |-> ins.program_id, isSigner |-> FALSE, isWritable |-> FALSE]
       /\ \A i \in 1..Len(ins.accounts) :
            /\ k[4 + i].pubkey = ins.accounts[i].pubkey
            /\ k[4 + i].isWritable = ins.accounts[i].is_writable
       /\ last.out.data = ApprovePayload

\* an approve of a supplied proposal address that is not the derived one
C4_Witness ==
  /\ last.op = "approve"
  /\ last.proposal # proposalAccountKey(last.config)
  /\ Len(last.config.instruction.accounts) = 2
  /\ last.out.keys[3].pubkey = last.proposal
  /\ last.out.data = ApprovePayload

\* C9: the proposal address placed by propose at account index 2 is
\* proposalAccountKey of {group, instruction} computed on its own, and a
\* propose of the same group and instruction with other lamports and another
\* proposer places the same address there.
C9_ProposalAddress ==
  last.op = "propose" =>
    /\ last.out.keys[3].pubkey
         = proposalAccountKey([group |-> last.group,
                               instruction |-> last.data.instruction])
    /\ \A lamports \in Lamports \ {last.data.lamports}, p \in Signers \ {last.signer} :
         propose([instruction |-> last.data.instruction, lamports |-> lamports],
                 last.group, p).keys[3]
           = last.out.keys[3]

\* a propose with non-zero lamports, compared with proposes of other lamports
C9_Witness ==
  /\ last.op = "propose"
  /\ last.data.lamports = 300
  /\ last.signer = RawKey(5)
  /\ Len(last.data.instruction.accounts) > 0
  /\ last.out.keys[3].pubkey
       = propose([instruction |-> last.data.instruction, lamports |-> 0],
                 last.group, RawKey(4)).keys[3].pubkey

\* propose alone: one call of propose on a group address and an instruction
NextPropose == Propose

SpecPropose == InitIx /\ [][NextPropose]_vars

\* the instruction with the signer flag of its i-th account flipped
FlipSigner(ins, i) == [ins EXCEPT !.accounts[i].is_signer = ~@]

\* C16: after propose its argument is the instruction it was given; the
\* payload it emits is the Propose variant carrying the proposed instruction
\* exactly as supplied, signer flags included, and the supplied lamports; the proposal address at account index 2 is derived from
\* the supplied instruction, so the instruction that differs only in the
\* signer flag of an entry naming the protected account gets another
\* address, although propose emits the same account list for both.
C16_RewriteFrame ==
  last.op = "propose" =>
    LET ins == last.data.instruction
        tag == readU8(last.out.data, 0)
        carried == deserialize_ProposedInstruction(last.out.data, tag.off)
        lamports == readU64(last.out.data, carried.off)
    IN /\ ins = input.instruction
       /\ tag.ok /\ tag.val = 1
       /\ carried.ok /\ carried.val = ins
       /\ lamports.ok /\ lamports.val = last.data.lamports
       /\ lamports.off = Len(last.out.data)
       /\ last.out.keys[3].pubkey
            = proposalAccountKey([group |-> last.group, instruction |-> ins])
       /\ \A i \in 1..Len(ins.accounts) :
            ins.accounts[i].pubkey = protectedAccountKey(last.group) =>
              LET other == propose([instruction |-> FlipSigner(ins, i),
                                    lamports |-> last.data.lamports],
                                   last.group, last.signer)
              IN /\ other.keys[3].pubkey # last.out.keys[3].pubkey
                 /\ SubSeq(other.keys, 4, Len(other.keys))
                      = SubSeq(last.out.keys, 4, Len(last.out.keys))

\* a propose naming the protected account as a signer: the emitted entry is
\* not a signer, the payload still carries the flag
C16_Witness ==
  /\ last.op = "propose"
  /\ Len(last.data.instruction.accounts) = 2
  /\ last.data.instruction.accounts[1].pubkey = protectedAccountKey(last.group)
  /\ last.data.instruction.accounts[1].is_signer
  /\ last.out.keys[6].isSigner = FALSE
  /\ deserialize_ProposedInstruction(last.out.data, 1).val.accounts[1].is_signer

-----------------------------------------------------------------------------
(* init: one call on a group description *)

InitGroup ==
  /\ input \in [group_data : GroupDatas(MaxInitMembers)]
  /\ last = Idle

InitCall ==
  /\ last = Idle
  /\ \E lamports \in Lamports, config \in ProtectedAccountConfigs, payer \in Signers :
       LET data == [group_data |-> input.group_data, lamports |-> lamports,
                    protected_account_config |-> config]
       IN /\ last' = [op |-> "init", data |-> data, payer |-> payer,
                      out |-> init(data, payer)]
          /\ UNCHANGED input

NextGroup == InitCall

SpecInit == InitGroup /\ [][NextGroup]_vars

\* the payload read back field by field: tag 0, the group, the lamports, the
\* presence flag and, when present, the three fields of the config
InitPayloadCarries(buf, data) ==
  LET tag == readU8(buf, 0)
      g == deserialize_GroupData(buf, tag.off)
      l == readU64(buf, g.off)
      flag == readU8(buf, l.off)
      cl == readU64(buf, flag.off)
      cs == readU64(buf, cl.off)
      co == readFixedArray(buf, cs.off, KeyLen)
  IN /\ tag.ok /\ tag.val = 0
     /\ g.ok /\ g.val = data.group_data
     /\ l.ok /\ l.val = data.lamports
     /\ flag.ok
     /\ IF data.protected_account_config = <<>>
        THEN flag.val = 0 /\ flag.off = Len(buf)
        ELSE /\ flag.val = 1
             /\ cl.ok /\ cl.val = data.protected_account_config[1].lamports
             /\ cs.ok /\ cs.val = data.protected_account_config[1].space
             /\ co.ok /\ co.val = data.protected_account_config[1].owner
             /\ co.off = Len(buf)

\* C5: init emits exactly four accounts: the payer (signer, writable), the
\* group address of group_data (writable), the system program (read-only) and
\* the protected address of that group address (writable); every other init of
\* the same group_data, whatever its lamports, config and payer, emits the same
\* two derived addresses; the payload is the Init variant carrying group_data,
\* lamports and the optional config.
C5_InitAccounts ==
  last.op = "init" =>
    LET k == last.out.keys
        g == groupAccountKey(last.data.group_data)
    IN /\ Len(k) = 4
       /\ k[1] = [pubkey |-> last.payer, isSigner |-> TRUE, isWritable |-> TRUE]
       /\ k[2] = [pubkey |-> g, isSigner |-> FALSE, isWritable |-> TRUE]
       /\ k[3] = [pubkey |-> SystemProgramId, isSigner |-> FALSE, isWritable |-> FALSE]
       /\ k[4] = [pubkey |-> protectedAccountKey(g), isSigner |-> FALSE,
                  isWritable |-> TRUE]
       /\ \A lamports \in Lamports, config \in ProtectedAccountConfigs,
             payer \in Signers :
            LET o == init([group_data |-> last.data.group_data,
                           lamports |-> lamports,
                           protected_account_config |-> config], payer).keys
            IN o[2] = k[2] /\ o[4] = k[4]
       /\ InitPayloadCarries(last.out.data, last.data)

\* an init of a two-member group with lamports and a protected-account config
C5_Witness ==
  /\ last.op = "init"
  /\ Len(last.data.group_data.members) = 2
  /\ last.data.lamports = 300
  /\ last.data.protected_account_config # <<>>
  /\ Len(last.out.keys) = 4
  /\ last.out.keys[4].pubkey = protectedAccountKey(last.out.keys[2].pubkey)

\* the member lists that hold the same members in another order
Reorderings(members) ==
  LET n == Len(members)
  IN {[i \in 1..n |-> members[f[i]]] :
        f \in {g \in [1..n -> 1..n] : \A i, j \in 1..n : i # j => g[i] # g[j]}}
       \ {members}

\* C12: a group description with the same threshold and the same members in
\* another order has another encoding and another group address than the one
\* init derives for the group description it is given.
C12_OrderSensitive ==
  last.op = "init" =>
    \A members \in Reorderings(last.data.group_data.members) :
      LET other == [members |-> members,
                    threshold |-> last.data.group_data.threshold]
      IN /\ serialize_GroupData(other) # serialize_GroupData(last.data.group_data)
         /\ groupAccountKey(other) # last.out.keys[2].pubkey

\* an init of two different members, whose swap derives another address
C12_Witness ==
  /\ last.op = "init"
  /\ Len(last.data.group_data.members) = 2
  /\ last.data.group_data.members[1] # last.data.group_data.members[2]
  /\ Reorderings(last.data.group_data.members) # {}
  /\ last.out.keys[2].pubkey
       # groupAccountKey([members |-> <<last.data.group_data.members[2],
                                       last.data.group_data.members[1]>>,
                          threshold |-> last.data.group_data.threshold])

-----------------------------------------------------------------------------
(* groupAccountSpace: one call on a group description *)

InitSpace ==
  /\ input \in [group_data : GroupDatas(MaxMembers)]
  /\ last = Idle

GroupAccountSpace ==
  /\ last = Idle
  /\ last' = [op |-> "groupAccountSpace", groupData |-> input.group_data,
              out |-> groupAccountSpace(input.group_data)]
  /\ UNCHANGED input

NextSpace == GroupAccountSpace

SpecSpace == InitSpace /\ [][NextSpace]_vars

\* C10: groupAccountSpace(g) is the length of the encoding of g plus 1, that
\* is 9 + 36 * N for N members whatever the keys, weights and threshold:
\* 9 for N = 0, 45 for N = 1, 189 for N = 5.
C10_GroupAccountSpace ==
  last.op = "groupAccountSpace" =>
    LET N == Len(last.groupData.members)
    IN /\ last.out = Len(serialize_GroupData(last.groupData)) + 1
       /\ last.out = 9 + 36 * N
       /\ N = 0 => last.out = 9
       /\ N = 1 => last.out = 45
       /\ N = 5 => last.out = 189

\* a five-member group with a zero weight and a two-byte weight
C10_Witness ==
  /\ last.op = "groupAccountSpace"
  /\ Len(last.groupData.members) = 5
  /\ last.groupData.members[1].weight = 0
  /\ last.groupData.members[2].weight = 300
  /\ last.out = 189

-----------------------------------------------------------------------------
(* proposalAccountSpace: one call on a proposal config *)

InitProposalSpace ==
  /\ input \in [config : [group : Groups \cup {RawKey(1)},
                           instruction : ProposedInstructions]]
  /\ last = Idle

ProposalAccountSpace ==
  /\ last = Idle
  /\ last' = [op |-> "proposalAccountSpace", config |-> input.config,
              out |-> proposalAccountSpace(input.config)]
  /\ UNCHANGED input

NextProposalSpace == ProposalAccountSpace

SpecProposalSpace == InitProposalSpace /\ [][NextProposalSpace]_vars

\* values a stored proposal state can take; 70000 needs three bytes
StateValues == [members : {0, 1, 3, 70000}, current_weight : {0, 1, 300}]

\* C15: proposalAccountSpace(config) is the length of the encoding of
\* ProposalData{config, state} plus 5, whatever the values of the state, which
\* always takes 12 bytes: 89 + 34 * (number of accounts) + (length of data).
C15_ProposalAccountSpace ==
  last.op = "proposalAccountSpace" =>
    /\ \A state \in StateValues :
         /\ Len(serialize_ProposalState(state)) = 12
         /\ last.out
              = Len(serialize_ProposalData([config |-> last.config,
                                            state |-> state])) + 5
    /\ last.out = 89 + 34 * Len(last.config.instruction.accounts)
                     + Len(last.config.instruction.data)

\* a config of two accounts and one data byte: 89 + 68 + 1
C15_Witness ==
  /\ last.op = "proposalAccountSpace"
  /\ Len(last.config.instruction.accounts) = 2
  /\ Len(last.config.instruction.data) = 1
  /\ last.out = 158

-----------------------------------------------------------------------------
(* Account readers: one call of readGroupAccountData or                    *)
(* readProposalAccountData on an account fetched from the chain.           *)

\* 8 zero bytes encode the empty group with threshold 0, 84 zero bytes the
\* all-zero proposal; 83 is one byte short of it
ZeroLens == {0, 8, 83, 84}

GroupPayloads == {serialize_GroupData(g) : g \in GroupDatas(1)}

ProposalPayloads ==
  {serialize_ProposalData([config |-> [group |-> g, instruction |-> ins],
                           state |-> [members |-> 1, current_weight |-> 1]]) :
     g \in {RawKey(1)},
     ins \in {i \in ProposedInstructions : Len(i.accounts) <= 1}}

\* a payload, the payload cut short by a byte, and with a byte left over
Damaged(payloads) ==
  payloads
    \cup {SubSeq(b, 1, Len(b) - 1) : b \in payloads}
    \cup {b \o <<Byte(0)>> : b \in payloads}

Payloads ==
  {Zeros(n) : n \in ZeroLens} \cup Damaged(GroupPayloads) \cup Damaged(ProposalPayloads)

AccountDatas == {<<>>} \cup {<<Byte(tag)>> \o b : tag \in {0, 1, 2}, b \in Payloads}

Owners == {programId, SystemProgramId}

InitRead ==
  /\ input \in [owner : Owners, data : AccountDatas]
  /\ last = Idle

ReadGroupAccountData ==
  /\ last = Idle
  /\ last' = [op |-> "readGroupAccountData", info |-> input,
              out |-> readGroupAccountData(input)]
  /\ UNCHANGED input

ReadProposalAccountData ==
  /\ last = Idle
  /\ last' = [op |-> "readProposalAccountData", info |-> input,
              out |-> readProposalAccountData(input)]
  /\ UNCHANGED input

NextRead == ReadGroupAccountData \/ ReadProposalAccountData

SpecRead == InitRead /\ [][NextRead]_vars

IsRead == last.op \in {"readGroupAccountData", "readProposalAccountData"}

AllZero(buffer) == \A i \in 1..Len(buffer) : buffer[i] = Byte(0)

\* C6 as claimed: a program-owned account whose data is zero after the
\* discriminant byte, whatever that byte is, is reported by
\* readProposalAccountData as 'data is zero (proposal may be complete)'.
C6_ZeroAfterDiscriminant ==
  ( /\ last.op = "readProposalAccountData"
    /\ last.info.owner = programId
    /\ Len(last.info.data) >= 1
    /\ AllZero(Slice1(last.info.data)) )
  => last.out.thrown = ErrZero

\* C6 as amended: a program-owned account whose whole data is zero, the
\* discriminant byte included, is reported by readProposalAccountData as
\* 'data is zero (proposal may be complete)'; when the data after a non-zero
\* discriminant is zero it is not: the tag 1 leads to a decoded proposal or a
\* decode error, any other tag to 'invalid account type'.
C6_ZeroData ==
  ( /\ last.op = "readProposalAccountData"
    /\ last.info.owner = programId
    /\ Len(last.info.data) >= 1
    /\ AllZero(Slice1(last.info.data)) )
  => IF last.info.data[1] = Byte(0) THEN last.out.thrown = ErrZero
     ELSE IF last.info.data[1] = Byte(1) THEN last.out.thrown \in {NoError, ErrDecode}
     ELSE last.out.thrown = ErrType

\* a zeroed 85-byte proposal account read by readProposalAccountData
C6_Witness ==
  /\ last.op = "readProposalAccountData"
  /\ last.info.owner = programId
  /\ Len(last.info.data) = 85
  /\ AllZero(last.info.data)
  /\ last.out.thrown = ErrZero

\* the tag each reader expects
ExpectedTag ==
  IF last.op = "readGroupAccountData"
  THEN ACCOUNT_TYPE_TAG.group
  ELSE ACCOUNT_TYPE_TAG.proposal

\* C7 as claimed: for a program-owned account, either reader fails with
\* 'invalid account type' whenever the first data byte is not its tag.
C7_TypeMismatchAlways ==
  ( /\ IsRead
    /\ last.info.owner = programId
    /\ Len(last.info.data) >= 1
    /\ last.info.data[1] # Byte(ExpectedTag) )
  => last.out.thrown = ErrType

\* C7 as amended: for a program-owned account, readGroupAccountData fails with
\* 'invalid account type' whenever the first data byte is not 0, and
\* readProposalAccountData fails with it whenever the first data byte is not 1
\* and the data is not all zero; all-zero data is reported as 'data is zero'.
C7_TypeMismatch ==
  ( /\ IsRead
    /\ last.info.owner = programId
    /\ Len(last.info.data) >= 1
    /\ last.info.data[1] # Byte(ExpectedTag) )
  => IF last.op = "readProposalAccountData" /\ AllZero(last.info.data)
     THEN last.out.thrown = ErrZero
     ELSE last.out.thrown = ErrType

\* a well-formed group account handed to readProposalAccountData
C7_Witness ==
  /\ last.op = "readProposalAccountData"
  /\ last.info.owner = programId
  /\ Len(last.info.data) >= 1
  /\ last.info.data[1] = Byte(ACCOUNT_TYPE_TAG.group)
  /\ readGroupAccountData(last.info).thrown = NoError
  /\ ~AllZero(last.info.data)
  /\ last.out.thrown = ErrType

\* C8: either reader fails with 'error: invalid account owner' for every
\* account whose owner is not the multisig program, whatever the data is; the
\* owner check comes before the zero-data and account-type checks and nothing
\* is decoded.
C8_OwnerMismatch ==
  (IsRead /\ last.info.owner # programId)
  => last.out = [thrown |-> ErrOwner, value |-> <<>>]

\* a zeroed account of another program read by readProposalAccountData
C8_Witness ==
  /\ last.op = "readProposalAccountData"
  /\ last.info.owner # programId
  /\ Len(last.info.data) > 0
  /\ AllZero(last.info.data)
  /\ last.out.thrown = ErrOwner

-----------------------------------------------------------------------------
(* Schema round trip: one value of one schema type is serialized and the   *)
(* bytes are deserialized as that type.                                    *)

\* serialize(schema, obj): the schema entry of the class of obj
encode(T, obj) ==
  CASE T = "GroupMember" -> serialize_GroupMember(obj)
    [] T = "GroupData" -> serialize_GroupData(obj)
    [] T = "ProposedAccountMeta" -> serialize_ProposedAccountMeta(obj)
    [] T = "ProposedInstruction" -> serialize_ProposedInstruction(obj)
    [] T = "ProposalConfig" -> serialize_ProposalConfig(obj)
    [] T = "ProposalState" -> serialize_ProposalState(obj)
    [] T = "ProposalData" -> serialize_ProposalData(obj)
    [] T = "ProtectedAccountConfig" -> serialize_ProtectedAccountConfig(obj)
    [] T = "InitInstruction" -> serialize_InitInstruction(obj)
    [] T = "ProposeInstruction" -> serialize_ProposeInstruction(obj)

\* deserialize(schema, T, buffer)
decode(T, buf) ==
  CASE T = "GroupMember" -> deserialize(deserialize_GroupMember, buf)
    [] T = "GroupData" -> deserialize(deserialize_GroupData, buf)
    [] T = "ProposedAccountMeta" -> deserialize(deserialize_ProposedAccountMeta, buf)
    [] T = "ProposedInstruction" -> deserialize(deserialize_ProposedInstruction, buf)
    [] T = "ProposalConfig" -> deserialize(deserialize_ProposalConfig, buf)
    [] T = "ProposalState" -> deserialize(deserialize_ProposalState, buf)
    [] T = "ProposalData" -> deserialize(deserialize_ProposalData, buf)
    [] T = "ProtectedAccountConfig" -> deserialize(deserialize_ProtectedAccountConfig, buf)
    [] T = "InitInstruction" -> deserialize(deserialize_InitInstruction, buf)
    [] T = "ProposeInstruction" -> deserialize(deserialize_ProposeInstruction, buf)

\* a value paired with the name of its class
Typed(T, values) == {<<T, v>> : v \in values}

SmallInstructions == {i \in ProposedInstructions : Len(i.accounts) <= 1}

ProposalConfigs == [group : {RawKey(1)}, instruction : SmallInstructions]

\* 70000 needs three bytes
ProposalStates == [members : {0, 3, 70000}, current_weight : Weights]

SchemaValues ==
  Typed("GroupMember", GroupMembers)
    \cup Typed("GroupData", GroupDatas(MaxInitMembers))
    \cup Typed("ProposedAccountMeta", ProposedAccountMetas)
    \cup Typed("ProposedInstruction", ProposedInstructions)
    \cup Typed("ProposalConfig", ProposalConfigs)
    \cup Typed("ProposalState", ProposalStates)
    \cup Typed("ProposalData", [config : ProposalConfigs, state : ProposalStates])
    \cup Typed("ProtectedAccountConfig",
               {c[1] : c \in ProtectedAccountConfigs \ {<<>>}})
    \cup Typed("InitInstruction",
               [group_data : GroupDatas(1), lamports : Lamports,
                protected_account_config : ProtectedAccountConfigs])
    \cup Typed("ProposeInstruction",
               [instruction : SmallInstructions, lamports : Lamports])

InitCodec ==
  /\ input \in SchemaValues
  /\ last = Idle

RoundTrip ==
  /\ last = Idle
  /\ LET T == input[1]
         obj == input[2]
         buf == encode(T, obj)
     IN last' = [op |-> "roundTrip", type |-> T, value |-> obj,
                 encoded |-> buf, decoded |-> decode(T, buf)]
  /\ UNCHANGED input

NextCodec == RoundTrip

SpecCodec == InitCodec /\ [][NextCodec]_vars

\* the decoded value has the fields of the original; an absent optional
\* config is decoded as undefined, a present one as the config
SameValue(T, decoded, original) ==
  IF T = "InitInstruction"
  THEN /\ decoded.group_data = original.group_data
       /\ decoded.lamports = original.lamports
       /\ IF original.protected_account_config = <<>>
          THEN decoded.protected_account_config = undefined
          ELSE decoded.protected_account_config
                 = original.protected_account_config[1]
  ELSE decoded = original

\* C11: for every schema type, decoding the encoding of a valid value succeeds
\* and yields a value equal to the original field by field.
C11_RoundTrip ==
  last.op = "roundTrip" =>
    /\ last.decoded.ok
    /\ SameValue(last.type, last.decoded.val, last.value)

-----------------------------------------------------------------------------
(* proposeMulti: the call in progress is held in `last`: pc is its         *)
(* position, k the number of instructions handled, transaction the         *)
(* instructions added so far, submitted the transactions handed to         *)
(* sendAndConfirmTransaction.  The connection is the network: a rent       *)
(* quote or a submission may fail, and the call then rejects.              *)

\* new ProposedInstruction(programId, keys.map(new ProposedAccountMeta), data)
ProposedInstructionOf(instruction) ==
  [program_id |-> instruction.programId,
   accounts |-> [i \in 1..Len(instruction.keys) |->
                   [pubkey |-> instruction.keys[i].pubkey,
                    is_signer |-> instruction.keys[i].isSigner,
                    is_writable |-> instruction.keys[i].isWritable]],
   data |-> instruction.data]

\* connection.getMinimumBalanceForRentExemption(space): the cluster's quote,
\* a price per byte for the space and the 128 bytes of account overhead
getMinimumBalanceForRentExemption(space, lamportsPerByte) ==
  (128 + space) * lamportsPerByte

\* the first half of an iteration, up to proposalKeys.push(proposalKey),
\* with the keys pushed at the front
proposeMulti_derive_Unshift(st, instruction, groupAccount) ==
  LET proposedInstructionData == ProposedInstructionOf(instruction)
      proposalConfig == [group |-> groupAccount,
                         instruction |-> proposedInstructionData]
      proposalKey == proposalAccountKey(proposalConfig)
  IN [st EXCEPT !.pc = "rent",
                !.proposalConfig = proposalConfig,
                !.proposalKeys = <<proposalKey>> \o @]

\* the first half of an iteration, up to proposalKeys.push(proposalKey)
proposeMulti_derive(st, instruction, groupAccount) ==
  LET proposedInstructionData == ProposedInstructionOf(instruction)
      proposalConfig == [group |-> groupAccount,
                         instruction |-> proposedInstructionData]
      proposalKey == proposalAccountKey(proposalConfig)
  IN [st EXCEPT !.pc = "rent",
                !.proposalConfig = proposalConfig,
                !.proposalKeys = Append(@, proposalKey)]

\* the second half of an iteration, from the rent quote to transaction.add
proposeMulti_add(st, rent, groupAccount, signerAccount) ==
  LET proposeInstruction == ProposeInstruction(st.proposalConfig.instruction, rent)
  IN [st EXCEPT !.pc = "loop",
                !.k = @ + 1,
                !.transaction =
                   Append(@, propose(proposeInstruction, groupAccount, signerAccount))]

\* instructions of other programs that act on the protected account of group g
InstructionsOn(g) ==
  {[programId |-> RawKey(2), keys |-> <<>>, data |-> <<>>],
   [programId |-> RawKey(2),
    keys |-> <<[pubkey |-> protectedAccountKey(g), isSigner |-> TRUE,
                isWritable |-> TRUE]>>,
    data |-> <<7>>],
   [programId |-> SystemProgramId,
    keys |-> <<[pubkey |-> RawKey(3), isSigner |-> FALSE, isWritable |-> TRUE],
               [pubkey |-> protectedAccountKey(g), isSigner |-> TRUE,
                isWritable |-> FALSE]>>,
    data |-> <<>>]}

TransactionInstructions == UNION {InstructionsOn(g) : g \in Groups}

LamportsPerByte == {1, 7}

InitMulti ==
  /\ input \in [group : Groups, signer : {RawKey(4)},
                 instructions : SeqsUpTo(TransactionInstructions, MaxInstructions),
                 lamportsPerByte : LamportsPerByte]
  /\ last = Idle

ProposeMultiCall ==
  /\ last = Idle
  /\ last' = [op |-> "proposeMulti", pc |-> "loop", k |-> 0,
              transaction |-> <<>>, proposalKeys |-> <<>>,
              proposalConfig |-> <<>>, submitted |-> <<>>, result |-> <<>>]
  /\ UNCHANGED input

ProposeMultiDerive ==
  /\ last.op = "proposeMulti"
  /\ last.pc = "loop"
  /\ last.k < Len(input.instructions)
  /\ last' = proposeMulti_derive(last, input.instructions[last.k + 1], input.group)
  /\ UNCHANGED input

ProposeMultiAdd ==
  /\ last.op = "proposeMulti"
  /\ last.pc = "rent"
  /\ LET rent == getMinimumBalanceForRentExemption(
                   proposalAccountSpace(last.proposalConfig), input.lamportsPerByte)
     IN last' = proposeMulti_add(last, rent, input.group, input.signer)
  /\ UNCHANGED input

\* the rent quote fails: the call rejects inside the loop
ProposeMultiRentFails ==
  /\ last.op = "proposeMulti"
  /\ last.pc = "rent"
  /\ last' = [last EXCEPT !.pc = "failed"]
  /\ UNCHANGED input

\* after the loop: the transaction is sent and confirmed, the keys are returned
ProposeMultiSend ==
  /\ last.op = "proposeMulti"
  /\ last.pc = "loop"
  /\ last.k = Len(input.instructions)
  /\ last' = [last EXCEPT !.pc = "done",
                          !.submitted = Append(@, last.transaction),
                          !.result = last.proposalKeys]
  /\ UNCHANGED input

\* after the loop: sendAndConfirmTransaction throws, before the transaction
\* reached the cluster or while waiting for its confirmation
ProposeMultiSendFails ==
  /\ last.op = "proposeMulti"
  /\ last.pc = "loop"
  /\ last.k = Len(input.instructions)
  /\ \E reached \in BOOLEAN :
       last' = [last EXCEPT !.pc = "failed",
                            !.submitted = IF reached
                                          THEN Append(@, last.transaction)
                                          ELSE @]
  /\ UNCHANGED input

NextMulti ==
  \/ ProposeMultiCall
  \/ ProposeMultiDerive
  \/ ProposeMultiAdd
  \/ ProposeMultiRentFails
  \/ ProposeMultiSend
  \/ ProposeMultiSendFails

SpecMulti == InitMulti /\ [][NextMulti]_vars

\* the propose instruction proposeMulti is to build for an input instruction
ExpectedPropose(instruction) ==
  LET ins == ProposedInstructionOf(instruction)
      config == [group |-> input.group, instruction |-> ins]
      rent == getMinimumBalanceForRentExemption(proposalAccountSpace(config),
                                                input.lamportsPerByte)
  IN propose([instruction |-> ins, lamports |-> rent], input.group, input.signer)

\* C13: proposeMulti submits at most one transaction, and only one that
\* holds a propose instruction for every input instruction; when it returns,
\* exactly one transaction was submitted, its i-th instruction is the propose
\* of the i-th input instruction with the rent quoted for the space of its
\* proposal as lamports, and the i-th returned address is the proposal
\* account (account index 2) of that instruction.
C13_ProposeMulti ==
  last.op = "proposeMulti" =>
    LET n == Len(input.instructions)
    IN /\ Len(last.submitted) <= 1
       /\ \A t \in 1..Len(last.submitted) :
            /\ Len(last.submitted[t]) = n
            /\ last.submitted[t]
                 = [i \in 1..n |-> ExpectedPropose(input.instructions[i])]
       /\ last.pc = "done" =>
            /\ Len(last.submitted) = 1
            /\ Len(last.result) = n
            /\ \A i \in 1..n :
                 last.result[i] = last.submitted[1][i].keys[3].pubkey

\* a returned call on two different instructions
C13_Witness ==
  /\ last.op = "proposeMulti"
  /\ last.pc = "done"
  /\ Len(input.instructions) = 2
  /\ input.instructions[1] # input.instructions[2]
  /\ Len(last.submitted) = 1
  /\ Len(last.submitted[1]) = 2
  /\ last.result[1] # last.result[2]

-----------------------------------------------------------------------------
(* createMultiApprove: the call in progress is held in `last` as for       *)
(* proposeMulti.  input.chain is what connection.getAccountInfo returns    *)
(* for an address: <<>> for null, <<info>> for an account.                 *)

ErrMissing == "error: cannot find the proposal account"

\* the rest of an iteration that skips a proposal it cannot read
createMultiApprove_add_Skip(st, proposalAccount, proposalData, signer) ==
  IF proposalData.thrown # NoError
  THEN [st EXCEPT !.k = @ + 1]
  ELSE [st EXCEPT !.k = @ + 1,
                  !.transaction =
                     Append(@, approve(proposalAccount, proposalData.config, signer))]

\* the rest of an iteration, given what readProposalAccountData threw or the
\* config of what it returned
createMultiApprove_add(st, proposalAccount, proposalData, signer) ==
  IF proposalData.thrown # NoError
  THEN [st EXCEPT !.pc = "failed", !.error = proposalData.thrown]
  ELSE [st EXCEPT !.k = @ + 1,
                  !.transaction =
                     Append(@, approve(proposalAccount, proposalData.config, signer))]

\* what readProposalAccountData threw and the config of what it returned
ReadConfig(r) ==
  [thrown |-> r.thrown,
   config |-> IF r.thrown = NoError THEN r.value.config ELSE <<>>]

\* one iteration of the loop, given the account info the connection returned
createMultiApprove_step(st, proposalAccount, proposalAccountInfo, signer) ==
  IF proposalAccountInfo = <<>>
  THEN [st EXCEPT !.pc = "failed", !.error = ErrMissing]
  ELSE createMultiApprove_add(
         st, proposalAccount,
         ReadConfig(readProposalAccountData(proposalAccountInfo[1])), signer)

ProposalAddresses == {RawKey(6), RawKey(7)}

\* the data of a proposal account as the program stores it: the tag, then
\* the proposal
StoredProposal(instruction) ==
  <<Byte(ACCOUNT_TYPE_TAG.proposal)>>
    \o serialize_ProposalData(
         [config |-> [group |-> RawKey(1),
                      instruction |-> ProposedInstructionOf(instruction)],
          state |-> [members |-> 1, current_weight |-> 1]])

StoredProposals == {StoredProposal(i) : i \in InstructionsOn(RawKey(1))}

\* null, open proposals, an executed (zeroed) proposal, a proposal of another
\* program, a group account, and a proposal cut short
AccountInfos ==
  {<<>>}
    \cup {<<[owner |-> programId, data |-> d]>> : d \in StoredProposals}
    \cup {<<[owner |-> programId, data |-> Zeros(85)]>>}
    \cup {<<[owner |-> SystemProgramId, data |-> StoredProposal(i)]>> :
            i \in {[programId |-> RawKey(2), keys |-> <<>>, data |-> <<>>]}}
    \cup {<<[owner |-> programId,
             data |-> <<Byte(ACCOUNT_TYPE_TAG.group)>>
                        \o serialize_GroupData(SampleGroupData)]>>}
    \cup {<<[owner |-> programId, data |-> SubSeq(d, 1, Len(d) - 1)]>> :
            d \in {StoredProposal([programId |-> RawKey(2), keys |-> <<>>,
                                   data |-> <<>>])}}

InitApprove ==
  /\ input \in [signer : {RawKey(5)},
                 proposals : SeqsUpTo(ProposalAddresses, MaxProposals),
                 chain : [ProposalAddresses -> AccountInfos]]
  /\ last = Idle

MultiApproveCall ==
  /\ last = Idle
  /\ last' = [op |-> "createMultiApprove", pc |-> "loop", k |-> 0,
              transaction |-> <<>>, submitted |-> <<>>, error |-> NoError]
  /\ UNCHANGED input

MultiApproveStep ==
  /\ last.op = "createMultiApprove"
  /\ last.pc = "loop"
  /\ last.k < Len(input.proposals)
  /\ LET proposalAccount == input.proposals[last.k + 1]
     IN last' = createMultiApprove_step(last, proposalAccount,
                                        input.chain[proposalAccount], input.signer)
  /\ UNCHANGED input

\* connection.getAccountInfo rejects
MultiApproveFetchFails ==
  /\ last.op = "createMultiApprove"
  /\ last.pc = "loop"
  /\ last.k < Len(input.proposals)
  /\ last' = [last EXCEPT !.pc = "failed", !.error = "getAccountInfo"]
  /\ UNCHANGED input

MultiApproveSend ==
  /\ last.op = "createMultiApprove"
  /\ last.pc = "loop"
  /\ last.k = Len(input.proposals)
  /\ last' = [last EXCEPT !.pc = "done",
                          !.submitted = Append(@, last.transaction)]
  /\ UNCHANGED input

\* sendAndConfirmTransaction throws, before the transaction reached the
\* cluster or while waiting for its confirmation
MultiApproveSendFails ==
  /\ last.op = "createMultiApprove"
  /\ last.pc = "loop"
  /\ last.k = Len(input.proposals)
  /\ \E reached \in BOOLEAN :
       last' = [last EXCEPT !.pc = "failed",
                            !.error = "sendAndConfirmTransaction",
                            !.submitted = IF reached
                                          THEN Append(@, last.transaction)
                                          ELSE @]
  /\ UNCHANGED input

NextApprove ==
  \/ MultiApproveCall
  \/ MultiApproveStep
  \/ MultiApproveFetchFails
  \/ MultiApproveSend
  \/ MultiApproveSendFails

SpecApprove == InitApprove /\ [][NextApprove]_vars

\* the i-th supplied proposal account exists and passes the owner, non-zero,
\* account-type and decoding validation
Validated(i) ==
  /\ input.chain[input.proposals[i]] # <<>>
  /\ readProposalAccountData(input.chain[input.proposals[i]][1]).thrown = NoError

\* C14: createMultiApprove submits at most one transaction; a submitted
\* transaction holds one approve per supplied proposal address, in the
\* supplied order, each built from the config read from that account, and
\* every supplied account exists and passes the validation; the call never
\* gets past a proposal that is missing or fails validation: it never
\* returns and never submits anything, approvals of the proposals validated
\* before it included.
C14_MultiApprove ==
  last.op = "createMultiApprove" =>
    LET n == Len(input.proposals)
    IN /\ Len(last.submitted) <= 1
       /\ \A t \in 1..Len(last.submitted) :
            /\ Len(last.submitted[t]) = n
            /\ \A i \in 1..n :
                 /\ Validated(i)
                 /\ last.submitted[t][i]
                      = approve(input.proposals[i],
                                readProposalAccountData(
                                  input.chain[input.proposals[i]][1]).value.config,
                                input.signer)
       /\ \A i \in 1..n :
            ~Validated(i) =>
              /\ last.k < i
              /\ last.pc # "done"
              /\ last.submitted = <<>>

\* a call that validated its first proposal and failed on the second, an
\* executed one: one approve was built and nothing was submitted
C14_Witness ==
  /\ last.op = "createMultiApprove"
  /\ Len(input.proposals) = 2
  /\ Validated(1)
  /\ ~Validated(2)
  /\ last.pc = "failed"
  /\ last.error = ErrZero
  /\ Len(last.transaction) = 1
  /\ last.submitted = <<>>

-----------------------------------------------------------------------------
(* Loader.deploy: the call in progress is held in `last`.  sent is the     *)
(* list of transactions handed to sendAndConfirmTransaction, confirmed the *)
(* number of them the cluster confirmed; while pc is one of the await      *)
(* positions the last sent transaction is neither confirmed nor failed.    *)

CHUNK_SIZE == 900

\* static chunkSize: number = CHUNK_SIZE
chunkSize == CHUNK_SIZE

\* array.slice(0, end)
SliceTo(array, end) == SubSeq(array, 1, IF end < Len(array) THEN end ELSE Len(array))

\* array.slice(start)
SliceFrom(array, start) == SubSeq(array, start + 1, Len(array))

\* the create-and-initialize transaction of the buffer account
initTransaction(data) ==
  [kind |-> "InitializeBuffer", space |-> 37 + Len(data)]

\* the transaction of one Write instruction
writeTransaction(offset, bytes) ==
  [kind |-> "Write", offset |-> offset, bytes |-> bytes]

\* the transaction that creates the program account and deploys the buffer
deployTransaction(data) ==
  [kind |-> "DeployWithMaxDataLen", max_data_len |-> Len(data)]

\* a loop that goes on only while a full chunk is left
deploy_more_FullChunk(array) == Len(array) >= chunkSize

\* while (array.length > 0)
deploy_more(array) == Len(array) > 0

\* offset += chunkSize; array = array.slice(chunkSize)
deploy_advance(st) ==
  [st EXCEPT !.offset = @ + chunkSize, !.array = SliceFrom(@, chunkSize)]

Remainders == {0, 1, 450, 899}

DataLengths == {c * chunkSize + r : c \in 0..MaxChunks, r \in Remainders}

\* the program bytes; the byte at index i is i mod 256
ProgramData(n) == [i \in 1..n |-> (i - 1) % 256]

InitDeploy ==
  /\ input \in [data : {ProgramData(n) : n \in DataLengths}]
  /\ last = Idle

DeployCall ==
  /\ last = Idle
  /\ last' = [op |-> "deploy", pc |-> "start", offset |-> 0, array |-> <<>>,
              sent |-> <<>>, confirmed |-> 0, result |-> FALSE]
  /\ UNCHANGED input

DeploySendInit ==
  /\ last.op = "deploy"
  /\ last.pc = "start"
  /\ last' = [last EXCEPT !.pc = "awaitInit",
                          !.sent = Append(@, initTransaction(input.data))]
  /\ UNCHANGED input

\* the buffer is initialized: let offset = 0; let array = data
DeployInitConfirmed ==
  /\ last.op = "deploy"
  /\ last.pc = "awaitInit"
  /\ last' = [last EXCEPT !.pc = "loop", !.confirmed = @ + 1,
                          !.offset = 0, !.array = input.data]
  /\ UNCHANGED input

DeploySendWrite ==
  /\ last.op = "deploy"
  /\ last.pc = "loop"
  /\ deploy_more(last.array)
  /\ LET bytes == SliceTo(last.array, chunkSize)
     IN last' = [last EXCEPT !.pc = "awaitWrite",
                             !.sent = Append(@, writeTransaction(last.offset, bytes))]
  /\ UNCHANGED input

DeployWriteConfirmed ==
  /\ last.op = "deploy"
  /\ last.pc = "awaitWrite"
  /\ last' = [deploy_advance(last) EXCEPT !.pc = "loop", !.confirmed = @ + 1]
  /\ UNCHANGED input

DeploySendDeploy ==
  /\ last.op = "deploy"
  /\ last.pc = "loop"
  /\ ~deploy_more(last.array)
  /\ last' = [last EXCEPT !.pc = "awaitDeploy",
                          !.sent = Append(@, deployTransaction(input.data))]
  /\ UNCHANGED input

DeployConfirmed ==
  /\ last.op = "deploy"
  /\ last.pc = "awaitDeploy"
  /\ last' = [last EXCEPT !.pc = "done", !.confirmed = @ + 1, !.result = TRUE]
  /\ UNCHANGED input

\* an await rejects: a rent quote before the first or the last transaction,
\* or a transaction that fails or is not confirmed
DeployRejects ==
  /\ last.op = "deploy"
  /\ \/ last.pc \in {"start", "awaitInit", "awaitWrite", "awaitDeploy"}
     \/ last.pc = "loop" /\ ~deploy_more(last.array)
  /\ last' = [last EXCEPT !.pc = "failed"]
  /\ UNCHANGED input

NextDeploy ==
  \/ DeployCall
  \/ DeploySendInit
  \/ DeployInitConfirmed
  \/ DeploySendWrite
  \/ DeployWriteConfirmed
  \/ DeploySendDeploy
  \/ DeployConfirmed
  \/ DeployRejects

\* every await of the call settles and the call goes on after it
SpecDeploy == InitDeploy /\ [][NextDeploy]_vars /\ WF_vars(NextDeploy)

\* ceil(n / chunkSize)
CeilChunks(n) == (n + chunkSize - 1) \div chunkSize

\* the bytes [o, min(o + chunkSize, n)) of the data
BytesAt(data, o) ==
  SubSeq(data, o + 1, IF o + chunkSize < Len(data) THEN o + chunkSize ELSE Len(data))

\* the transactions of a deployment of the data, in order
ExpectedDeploy(data) ==
  <<initTransaction(data)>>
    \o [j \in 1..CeilChunks(Len(data)) |->
          writeTransaction((j - 1) * chunkSize, BytesAt(data, (j - 1) * chunkSize))]
    \o <<deployTransaction(data)>>

\* what has been sent is the beginning of the expected transactions; a
\* transaction is sent only when all before it are confirmed, and while it is
\* awaited it is the only one not confirmed; a call that returned sent them all
DeployInOrder ==
  last.op = "deploy" =>
    LET expected == ExpectedDeploy(input.data)
    IN /\ Len(last.sent) <= Len(expected)
       /\ last.sent = SubSeq(expected, 1, Len(last.sent))
       /\ last.confirmed \in {Len(last.sent) - 1, Len(last.sent)}
       /\ last.pc \in {"start", "loop", "done"} => last.confirmed = Len(last.sent)
       /\ last.pc \in {"awaitInit", "awaitWrite", "awaitDeploy"}
            => last.confirmed = Len(last.sent) - 1
       /\ last.pc = "done" => last.sent = expected /\ last.result = TRUE

DeployEnded == last.op = "deploy" /\ last.pc \in {"done", "failed"}

\* C17: Loader.deploy sends, one after another and each only after the one
\* before it was confirmed, the buffer create-and-initialize transaction, then
\* ceil(n / chunkSize) write transactions with offsets 0, chunkSize, ... that
\* carry the bytes [o, min(o + chunkSize, n)), then the deploy transaction with
\* max_data_len = n; after a failure nothing more is sent; the call ends.
C17_Deploy ==
  /\ []DeployInOrder
  /\ [][(last.op = "deploy" /\ last.pc = "failed") => last' = last]_vars
  /\ <>DeployEnded

\* a returned deployment of 1801 bytes: three writes, the last one of one byte
C17_Witness ==
  /\ last.op = "deploy"
  /\ last.pc = "done"
  /\ Len(input.data) = 2 * chunkSize + 1
  /\ Len(last.sent) = 5
  /\ last.sent[4] = [kind |-> "Write", offset |-> 1800, bytes |-> <<8>>]
  /\ last.sent[5].max_data_len = 1801

-----------------------------------------------------------------------------
(* byteArrayToWordArray: one call on a byte array *)

\* 0, a low bit, and the byte whose top bit makes the word negative
ByteValues == {0, 1, 255}

InitWords ==
  /\ input \in [ba : SeqsUpTo({Byte(b) : b \in ByteValues}, MaxBytes)]
  /\ last = Idle

ByteArrayToWordArray ==
  /\ last = Idle
  /\ last' = [op |-> "byteArrayToWordArray", ba |-> input.ba,
              out |-> byteArrayToWordArray(input.ba)]
  /\ UNCHANGED input

NextWords == ByteArrayToWordArray

SpecWords == InitWords /\ [][NextWords]_vars

\* byte i (0-based) of the array, 0 when the array is shorter
ByteOrZero(ba, i) == IF i < Len(ba) THEN ba[i + 1] ELSE Byte(0)

\* C18: byteArrayToWordArray maps an array of L bytes to ceil(L / 4) words
\* and the byte count L; the shift amount of byte i is 24 - 8 * (i mod 4), so
\* word k holds the bytes 4k .. 4k+3 from the most significant lane down,
\* absent bytes as 0; the bytes are read back from the lanes, and every other
\* byte array gives another result.
C18_WordPacking ==
  last.op = "byteArrayToWordArray" =>
    LET L == Len(last.ba)
        words == last.out.words
    IN /\ last.out.sigBytes = L
       /\ Len(words) = (L + 3) \div 4
       /\ \A i \in 0..(L - 1) : ShiftAmount(i) = 24 - 8 * (i % 4)
       /\ \A k \in 0..(Len(words) - 1) :
            words[k + 1] = <<ByteOrZero(last.ba, 4 * k), ByteOrZero(last.ba, 4 * k + 1),
                             ByteOrZero(last.ba, 4 * k + 2), ByteOrZero(last.ba, 4 * k + 3)>>
       /\ SubSeq(WordBytes(words), 1, L) = last.ba
       /\ \A other \in SeqsUpTo({Byte(b) : b \in ByteValues}, MaxBytes) :
            other # last.ba => byteArrayToWordArray(other) # last.out

\* five bytes: byte 4 is shifted by -8, which acts as 24, into the top lane
\* of the second word
C18_Witness ==
  /\ last.op = "byteArrayToWordArray"
  /\ last.ba = <<Byte(1), Byte(255), Byte(0), Byte(1), Byte(255)>>
  /\ last.out.words = <<<<Byte(1), Byte(255), Byte(0), Byte(1)>>,
                         <<Byte(255), Byte(0), Byte(0), Byte(0)>>>>
  /\ last.out.sigBytes = 5

====
